---- MODULE Spec2Model ----
(***************************************************************************)
(* rate-gate: a per-entity rate limiter (src/src/lib.rs).                  *)
(*                                                                         *)
(* Limiter<T> owns requests: Arc<Mutex<HashMap<T, AssociatedEntity>>>.     *)
(* Every public method first takes the mutex (self.requests.lock()), then  *)
(* runs its body on the map and drops the guard when it returns.  The      *)
(* model follows each method statement by statement: a thread's pc is the  *)
(* statement it executes next, the mutex is the variable lock, and         *)
(* Instant::now() reads the variable clock, which only moves forward.      *)
(***************************************************************************)
EXTENDS Integers, Sequences, FiniteSets, TLC

\* Entity keys (T: Hash + Eq) and the threads that share the limiter.
Keys == {"user1", "user2"}
Threads == {"t1", "t2"}

\* Bounds of the model: the last instant of the clock, the largest max_limit
\* and the longest refresh_rate a caller passes to add_limited_entity.  Time is
\* counted in whole units; a refresh_rate is at least one unit.
MaxTime == 2
MaxCap == 1
MaxWin == 1

Caps == 0..MaxCap
Wins == 1..MaxWin

\* Option<X>: None, Some(x).
None == <<>>
Some(x) == <<x>>

NoThread == "none"
NoArgs == <<>>
NoOuter == "absent"

VARIABLES
    requests,   \* the HashMap: a function from the registered keys to entities
    lock,       \* the Mutex around the map: its holder, or NoThread
    clock,      \* the monotonic clock Instant::now() reads
    pc,         \* per thread: the statement it executes next
    op,         \* per thread: the method it is in
    key,        \* per thread: the method's entity argument
    args,       \* per thread: <<max_limit, refresh_rate>> of add_limited_entity
    now,        \* per thread: the local `now` (the Instant read under the lock)
    ret,        \* per thread: the value the method is about to return
    snap,       \* history: the map as it was when the lock was last acquired
    allowed,    \* history: per key, the Some(true) results since bucket_init was set
    calls,      \* history: per key, the Some(_) results since then, counted to MaxCap + 1
    consumer,   \* history: per key, the thread that last got Some(true) since then
    life,       \* history: per key, "never", "added" or "removed"
    outer,      \* the Mutex an embedding program wraps around the Limiter: its
                \* holder, NoThread, or NoOuter when threads call on clones
    grants,     \* history: per key and instant, the Some(true) results of calls
                \* that read that instant as `now`, since the key was registered
    starts      \* history: per key, the values bucket_init took since registration

vars == <<requests, lock, clock, pc, op, key, args, now, ret, snap, allowed, calls, consumer, life,
          outer, grants, starts>>

\* What the methods of the Limiter never touch.
aux == <<outer, grants, starts>>

Ops == {"add_limited_entity", "remove_limited_entity", "is_entity_limited",
        "get_bucket_remaining"}

----------------------------------------------------------------------------
\* The data and the pure pieces of the methods.

\* AssociatedEntity as add_limited_entity builds it.
NewEntity(max_limit, refresh_rate, t) ==
    [bucket |-> max_limit, bucket_init |-> t,
     bucket_max |-> max_limit, refresh_rate |-> refresh_rate]

\* Faulty variants of the definitions below, one plausible slip each.  They
\* are not part of the limiter: each property at the end of the module is
\* also checked to fail when the code is replaced by one of them.
MapGetOrDefault(map, k) ==
    IF k \in DOMAIN map THEN <<map[k]>>
    ELSE <<[bucket |-> 0, bucket_init |-> 0, bucket_max |-> 0, refresh_rate |-> 0]>>
MapInsertIfVacant(map, k, v) ==
    [x \in DOMAIN map \cup {k} |-> IF x \in DOMAIN map THEN map[x] ELSE v]
MapRemoveKeeps(map, k) == map
MapRemoveClears(map, k) == [x \in {} |-> <<>>]
ExpiredStrictly(entry, t) ==
    (IF t >= entry.bucket_init THEN t - entry.bucket_init ELSE 0) > entry.refresh_rate
RefilledOnTop(entry, t) ==
    [entry EXCEPT !.bucket = entry.bucket + entry.bucket_max, !.bucket_init = t]
HasRequestsOffByOne(entry) == entry.bucket > 1
HasRequestsAlways(entry) == TRUE
HasRequestsOrZero(entry) == entry.bucket >= 0
ExpiredAlways(entry, t) == TRUE
ConsumedTwice(entry) == [entry EXCEPT !.bucket = entry.bucket - 2]
LockNotExclusive == TRUE

\* HashMap::get, insert, remove.
MapGet(map, k) == IF k \in DOMAIN map THEN Some(map[k]) ELSE None
MapInsert(map, k, v) ==
    [x \in DOMAIN map \cup {k} |-> IF x = k THEN v ELSE map[x]]
MapRemove(map, k) == [x \in DOMAIN map \ {k} |-> map[x]]
EmptyMap == [x \in {} |-> None]

\* Instant::duration_since: the time elapsed, or zero when `earlier` is later.
DurationSince(t, earlier) == IF t >= earlier THEN t - earlier ELSE 0

\* now.duration_since(entry.bucket_init) >= entry.refresh_rate
Expired(entry, t) == DurationSince(t, entry.bucket_init) >= entry.refresh_rate

\* entry.bucket = entry.bucket_max; entry.bucket_init = now;
Refilled(entry, t) == [entry EXCEPT !.bucket = entry.bucket_max, !.bucket_init = t]

\* entry.bucket > 0
HasRequests(entry) == entry.bucket > 0

\* entry.bucket -= 1
Consumed(entry) == [entry EXCEPT !.bucket = entry.bucket - 1]

\* Mutex::lock returns only when no other thread holds the guard.
LockFree == lock = NoThread

\* The history counts a key's Some(true) and Some(false) results up to one
\* more than any capacity, which is enough to tell "at least K calls".
Counted(n) == IF n <= MaxCap THEN n + 1 ELSE n

\* Some(false) was returned for key k since its bucket_init was last set.
Denied(k) == calls[k] > allowed[k]

----------------------------------------------------------------------------
Init ==
    /\ requests = EmptyMap
    /\ lock = NoThread
    /\ clock = 0
    /\ pc = [t \in Threads |-> "idle"]
    /\ op = [t \in Threads |-> "none"]
    /\ key = [t \in Threads |-> "none"]
    /\ args = [t \in Threads |-> NoArgs]
    /\ now = [t \in Threads |-> 0]
    /\ ret = [t \in Threads |-> None]
    /\ snap = EmptyMap
    /\ allowed = [k \in Keys |-> 0]
    /\ calls = [k \in Keys |-> 0]
    /\ consumer = [k \in Keys |-> NoThread]
    /\ life = [k \in Keys |-> "never"]
    /\ outer = NoOuter
    /\ grants = [k \in Keys |-> [i \in 0..MaxTime |-> 0]]
    /\ starts = [k \in Keys |-> <<>>]

\* Time passes, at any moment, also while a thread holds the lock.
Tick ==
    /\ clock < MaxTime
    /\ clock' = clock + 1
    /\ UNCHANGED <<requests, lock, pc, op, key, args, now, ret, snap, allowed, calls, consumer, life>>

\* A thread calls a method of its Limiter clone and reaches the method's first
\* statement, self.requests.lock(), where it waits for the mutex.
Call(t) ==
    /\ pc[t] = "idle"
    /\ pc' = [pc EXCEPT ![t] = "lock"]
    /\ UNCHANGED <<requests, lock, clock, op, key, args, now, ret, snap, allowed, calls, consumer, life>>

\* let mut requests = self.requests.lock().unwrap();
\* Which method the thread is in and with which arguments is first used under
\* the lock, so the model draws them here and not in Call: no other thread
\* can tell the difference, and a waiting caller stays one state.
Acquire(t) ==
    /\ pc[t] = "lock"
    /\ LockFree
    /\ lock' = t
    /\ snap' = requests
    /\ \E o \in Ops, k \in Keys :
         /\ op' = [op EXCEPT ![t] = o]
         /\ key' = [key EXCEPT ![t] = k]
         /\ pc' = [pc EXCEPT ![t] =
                     CASE o = "add_limited_entity" -> "insert"
                       [] o = "remove_limited_entity" -> "remove"
                       [] o = "is_entity_limited" -> "now"
                       [] OTHER -> "peek"]
         /\ IF o = "add_limited_entity"
            THEN \E c \in Caps, w \in Wins : args' = [args EXCEPT ![t] = <<c, w>>]
            ELSE args' = args
    /\ UNCHANGED <<requests, clock, now, ret, allowed, calls, consumer, life>>

\* A faulty variant of AddInsert: the Instant was read before the lock was
\* acquired, so it is any instant up to the present.
AddInsertEarlyClock(t) ==
    /\ pc[t] = "insert"
    /\ \E early \in 0..clock :
         /\ now' = [now EXCEPT ![t] = early]
         /\ requests' = MapInsert(requests, key[t], NewEntity(args[t][1], args[t][2], early))
    /\ allowed' = [allowed EXCEPT ![key[t]] = 0]
    /\ calls' = [calls EXCEPT ![key[t]] = 0]
    /\ consumer' = [consumer EXCEPT ![key[t]] = NoThread]
    /\ pc' = [pc EXCEPT ![t] = "unlock"]
    /\ UNCHANGED <<lock, clock, op, key, args, ret, snap, life>>

\* add_limited_entity: requests.insert(entity, AssociatedEntity { .. Instant::now() .. })
AddInsert(t) ==
    /\ pc[t] = "insert"
    /\ now' = [now EXCEPT ![t] = clock]
    /\ requests' = MapInsert(requests, key[t], NewEntity(args[t][1], args[t][2], clock))
    /\ allowed' = [allowed EXCEPT ![key[t]] = 0]
    /\ calls' = [calls EXCEPT ![key[t]] = 0]
    /\ consumer' = [consumer EXCEPT ![key[t]] = NoThread]
    /\ pc' = [pc EXCEPT ![t] = "unlock"]
    /\ UNCHANGED <<lock, clock, op, key, args, ret, snap, life>>

\* remove_limited_entity: requests.remove(&entity)
RemoveEntity(t) ==
    /\ pc[t] = "remove"
    /\ ret' = [ret EXCEPT ![t] = MapGet(requests, key[t])]
    /\ requests' = MapRemove(requests, key[t])
    /\ allowed' = [allowed EXCEPT ![key[t]] = 0]
    /\ calls' = [calls EXCEPT ![key[t]] = 0]
    /\ consumer' = [consumer EXCEPT ![key[t]] = NoThread]
    /\ pc' = [pc EXCEPT ![t] = "unlock"]
    /\ UNCHANGED <<lock, clock, op, key, args, now, snap, life>>

\* A faulty variant of Peek: a peek that reports the bucket as a refill at the
\* current instant would leave it.
PeekRefillAware(t) ==
    /\ pc[t] = "peek"
    /\ LET found == MapGet(requests, key[t])
       IN ret' = [ret EXCEPT ![t] =
                    IF found = None THEN None
                    ELSE IF Expired(found[1], clock) THEN Some(found[1].bucket_max)
                    ELSE Some(found[1].bucket)]
    /\ pc' = [pc EXCEPT ![t] = "unlock"]
    /\ UNCHANGED <<requests, lock, clock, op, key, args, now, snap, allowed, calls, consumer, life>>

\* get_bucket_remaining: requests.get(entity).map(|entry| entry.bucket)
Peek(t) ==
    /\ pc[t] = "peek"
    /\ LET found == MapGet(requests, key[t])
       IN ret' = [ret EXCEPT ![t] =
                    IF found # None THEN Some(found[1].bucket) ELSE None]
    /\ pc' = [pc EXCEPT ![t] = "unlock"]
    /\ UNCHANGED <<requests, lock, clock, op, key, args, now, snap, allowed, calls, consumer, life>>

\* is_entity_limited: let now = Instant::now();
ReadNow(t) ==
    /\ pc[t] = "now"
    /\ now' = [now EXCEPT ![t] = clock]
    /\ pc' = [pc EXCEPT ![t] = "lookup"]
    /\ UNCHANGED <<requests, lock, clock, op, key, args, ret, snap, allowed, calls, consumer, life>>

\* is_entity_limited: if let Some(entry) = requests.get_mut(entity) {
\*                        if now.duration_since(..) >= entry.refresh_rate { .. }
\*                    } else { None }
Lookup(t) ==
    /\ pc[t] = "lookup"
    /\ IF MapGet(requests, key[t]) # None
       THEN /\ pc' = [pc EXCEPT ![t] =
                        IF Expired(MapGet(requests, key[t])[1], now[t])
                        THEN "refill" ELSE "test"]
            /\ ret' = ret
       ELSE /\ pc' = [pc EXCEPT ![t] = "unlock"]
            /\ ret' = [ret EXCEPT ![t] = None]
    /\ UNCHANGED <<requests, lock, clock, op, key, args, now, snap, allowed, calls, consumer, life>>

\* is_entity_limited: entry.bucket = entry.bucket_max; entry.bucket_init = now;
Refill(t) ==
    /\ pc[t] = "refill"
    /\ key[t] \in DOMAIN requests
    /\ requests' = [requests EXCEPT ![key[t]] = Refilled(@, now[t])]
    /\ allowed' = [allowed EXCEPT ![key[t]] = 0]
    /\ calls' = [calls EXCEPT ![key[t]] = 0]
    /\ consumer' = [consumer EXCEPT ![key[t]] = NoThread]
    /\ pc' = [pc EXCEPT ![t] = "test"]
    /\ UNCHANGED <<lock, clock, op, key, args, now, ret, snap, life>>

\* is_entity_limited: if entry.bucket > 0 { .. } else { Some(false) }
Test(t) ==
    /\ pc[t] = "test"
    /\ key[t] \in DOMAIN requests
    /\ IF HasRequests(requests[key[t]])
       THEN /\ pc' = [pc EXCEPT ![t] = "dec"]
            /\ UNCHANGED <<ret, calls>>
       ELSE /\ pc' = [pc EXCEPT ![t] = "unlock"]
            /\ ret' = [ret EXCEPT ![t] = Some(FALSE)]
            /\ calls' = [calls EXCEPT ![key[t]] = Counted(@)]
    /\ UNCHANGED <<requests, lock, clock, op, key, args, now, snap, allowed, consumer, life>>

\* is_entity_limited: entry.bucket -= 1; Some(true)
Dec(t) ==
    /\ pc[t] = "dec"
    /\ key[t] \in DOMAIN requests
    /\ requests' = [requests EXCEPT ![key[t]] = Consumed(@)]
    /\ ret' = [ret EXCEPT ![t] = Some(TRUE)]
    /\ allowed' = [allowed EXCEPT ![key[t]] = @ + 1]
    /\ calls' = [calls EXCEPT ![key[t]] = Counted(@)]
    /\ consumer' = [consumer EXCEPT ![key[t]] = t]
    /\ pc' = [pc EXCEPT ![t] = "unlock"]
    /\ UNCHANGED <<lock, clock, op, key, args, now, snap, life>>

\* A faulty variant of Unlock: the method returns with the guard still alive.
UnlockKeepsGuard(t) ==
    /\ pc[t] = "unlock"
    /\ pc' = [pc EXCEPT ![t] = "idle"]
    /\ op' = [op EXCEPT ![t] = "none"]
    /\ key' = [key EXCEPT ![t] = "none"]
    /\ args' = [args EXCEPT ![t] = NoArgs]
    /\ now' = [now EXCEPT ![t] = 0]
    /\ ret' = [ret EXCEPT ![t] = None]
    /\ UNCHANGED <<requests, lock, snap, life, clock, allowed, calls, consumer>>

\* The method returns: the guard is dropped and the caller gets ret[t].
Unlock(t) ==
    /\ pc[t] = "unlock"
    /\ lock' = NoThread
    /\ snap' = requests
    /\ life' = CASE op[t] = "add_limited_entity" -> [life EXCEPT ![key[t]] = "added"]
                 [] op[t] = "remove_limited_entity" /\ ret[t] # None
                      -> [life EXCEPT ![key[t]] = "removed"]
                 [] OTHER -> life
    /\ pc' = [pc EXCEPT ![t] = "idle"]
    /\ op' = [op EXCEPT ![t] = "none"]
    /\ key' = [key EXCEPT ![t] = "none"]
    /\ args' = [args EXCEPT ![t] = NoArgs]
    /\ now' = [now EXCEPT ![t] = 0]
    /\ ret' = [ret EXCEPT ![t] = None]
    /\ UNCHANGED <<requests, clock, allowed, calls, consumer>>

Next ==
    \/ Tick /\ UNCHANGED aux
    \/ \E t \in Threads : Call(t) /\ UNCHANGED aux
    \/ \E t \in Threads : Acquire(t) /\ UNCHANGED aux
    \/ \E t \in Threads : AddInsert(t) /\ UNCHANGED aux
    \/ \E t \in Threads : RemoveEntity(t) /\ UNCHANGED aux
    \/ \E t \in Threads : Peek(t) /\ UNCHANGED aux
    \/ \E t \in Threads : ReadNow(t) /\ UNCHANGED aux
    \/ \E t \in Threads : Lookup(t) /\ UNCHANGED aux
    \/ \E t \in Threads : Refill(t) /\ UNCHANGED aux
    \/ \E t \in Threads : Test(t) /\ UNCHANGED aux
    \/ \E t \in Threads : Dec(t) /\ UNCHANGED aux
    \/ \E t \in Threads : Unlock(t) /\ UNCHANGED aux

Spec == Init /\ [][Next]_vars

----------------------------------------------------------------------------
\* The same program with the history of each registration written down: the
\* instants at which Some(true) was returned and the values of bucket_init.

\* Some(true) results at one instant are counted up to one more than twice
\* any capacity.
Granted(n) == IF n <= 2 * MaxCap THEN n + 1 ELSE n

\* bucket_init values are written down up to one per instant and one more.
Started(seq, t) == IF Len(seq) <= MaxTime + 1 THEN Append(seq, t) ELSE seq

NoGrants == [i \in 0..MaxTime |-> 0]

RecAddInsert(t) ==
    /\ AddInsert(t)
    /\ grants' = [grants EXCEPT ![key[t]] = NoGrants]
    /\ starts' = [starts EXCEPT ![key[t]] = <<requests'[key[t]].bucket_init>>]
    /\ UNCHANGED outer

RecRemoveEntity(t) ==
    /\ RemoveEntity(t)
    /\ grants' = [grants EXCEPT ![key[t]] = NoGrants]
    /\ starts' = [starts EXCEPT ![key[t]] = <<>>]
    /\ UNCHANGED outer

RecRefill(t) ==
    /\ Refill(t)
    /\ starts' = [starts EXCEPT ![key[t]] = Started(@, requests'[key[t]].bucket_init)]
    /\ UNCHANGED <<outer, grants>>

RecDec(t) ==
    /\ Dec(t)
    /\ grants' = [grants EXCEPT ![key[t]][now[t]] = Granted(@)]
    /\ UNCHANGED <<outer, starts>>

HistNext ==
    \/ Tick /\ UNCHANGED aux
    \/ \E t \in Threads : Call(t) /\ UNCHANGED aux
    \/ \E t \in Threads : Acquire(t) /\ UNCHANGED aux
    \/ \E t \in Threads : RecAddInsert(t)
    \/ \E t \in Threads : RecRemoveEntity(t)
    \/ \E t \in Threads : Peek(t) /\ UNCHANGED aux
    \/ \E t \in Threads : ReadNow(t) /\ UNCHANGED aux
    \/ \E t \in Threads : Lookup(t) /\ UNCHANGED aux
    \/ \E t \in Threads : RecRefill(t)
    \/ \E t \in Threads : Test(t) /\ UNCHANGED aux
    \/ \E t \in Threads : RecDec(t)
    \/ \E t \in Threads : Unlock(t) /\ UNCHANGED aux

HistSpec == Init /\ [][HistNext]_vars

----------------------------------------------------------------------------
\* examples/http-server.rs: worker threads run handle_request on one
\* Arc<Mutex<Limiter<String>>>.  The clock counts seconds.

entity_ip == "127.0.0.1"
HKeys == {entity_ip}
HttpMaxLimit == 5
HttpRefreshSecs == 10
HttpMaxTime == 10

\* A faulty variant of OuterFree: the handler does not wait for the outer Mutex.
OuterNotExclusive == TRUE

\* limiter.lock() returns only when no other request holds the outer guard.
OuterFree == outer = NoThread

HttpInit ==
    /\ requests = EmptyMap
    /\ lock = NoThread
    /\ clock = 0
    /\ pc = [t \in Threads |-> "h_idle"]
    /\ op = [t \in Threads |-> "none"]
    /\ key = [t \in Threads |-> "none"]
    /\ args = [t \in Threads |-> NoArgs]
    /\ now = [t \in Threads |-> 0]
    /\ ret = [t \in Threads |-> None]
    /\ snap = EmptyMap
    /\ allowed = [k \in HKeys |-> 0]
    /\ calls = [k \in HKeys |-> 0]
    /\ consumer = [k \in HKeys |-> NoThread]
    /\ life = [k \in HKeys |-> "never"]
    /\ outer = NoThread
    /\ grants = [k \in HKeys |-> NoGrants]
    /\ starts = [k \in HKeys |-> <<>>]

HTick ==
    /\ outer # NoOuter
    /\ clock < HttpMaxTime
    /\ clock' = clock + 1
    /\ UNCHANGED <<requests, lock, pc, op, key, args, now, ret, snap, allowed, calls,
                   consumer, life, outer, grants, starts>>

\* A request arrives: handle_request starts on worker t.
HRequest(t) ==
    /\ pc[t] = "h_idle"
    /\ pc' = [pc EXCEPT ![t] = "h_lock"]
    /\ UNCHANGED <<requests, lock, clock, op, key, args, now, ret, snap, allowed, calls,
                   consumer, life, outer, grants, starts>>

\* let mut limiter_lock = limiter.lock().unwrap();
HOuterLock(t) ==
    /\ pc[t] = "h_lock"
    /\ OuterFree
    /\ outer' = t
    /\ pc' = [pc EXCEPT ![t] = "h_check"]
    /\ UNCHANGED <<requests, lock, clock, op, key, args, now, ret, snap, allowed, calls,
                   consumer, life, grants, starts>>

\* limiter_lock.is_entity_limited(&entity_ip): its requests.lock()
HCheckLock(t) ==
    /\ pc[t] = "h_check"
    /\ LockFree
    /\ lock' = t
    /\ snap' = requests
    /\ op' = [op EXCEPT ![t] = "is_entity_limited"]
    /\ key' = [key EXCEPT ![t] = entity_ip]
    /\ pc' = [pc EXCEPT ![t] = "now"]
    /\ UNCHANGED <<requests, clock, args, now, ret, allowed, calls, consumer, life,
                   outer, grants, starts>>

\* is_entity_limited returns (its guard is dropped) and the match takes its arm.
HCheckReturn(t) ==
    /\ pc[t] = "unlock"
    /\ op[t] = "is_entity_limited"
    /\ outer # NoOuter
    /\ lock' = NoThread
    /\ snap' = requests
    /\ pc' = [pc EXCEPT ![t] = IF ret[t] = None THEN "h_add" ELSE "h_respond"]
    /\ now' = [now EXCEPT ![t] = 0]
    /\ UNCHANGED <<requests, clock, op, key, args, ret, allowed, calls, consumer, life,
                   outer, grants, starts>>

\* None => limiter_lock.add_limited_entity(entity_ip.clone(), 5, Duration::from_secs(10))
HAddLock(t) ==
    /\ pc[t] = "h_add"
    /\ LockFree
    /\ lock' = t
    /\ snap' = requests
    /\ op' = [op EXCEPT ![t] = "add_limited_entity"]
    /\ key' = [key EXCEPT ![t] = entity_ip]
    /\ args' = [args EXCEPT ![t] = <<HttpMaxLimit, HttpRefreshSecs>>]
    /\ pc' = [pc EXCEPT ![t] = "insert"]
    /\ UNCHANGED <<requests, clock, now, ret, allowed, calls, consumer, life,
                   outer, grants, starts>>

\* add_limited_entity returns (its guard is dropped).
HAddReturn(t) ==
    /\ pc[t] = "unlock"
    /\ op[t] = "add_limited_entity"
    /\ outer # NoOuter
    /\ lock' = NoThread
    /\ snap' = requests
    /\ life' = [life EXCEPT ![key[t]] = "added"]
    /\ pc' = [pc EXCEPT ![t] = "h_respond"]
    /\ now' = [now EXCEPT ![t] = 0]
    /\ UNCHANGED <<requests, clock, op, key, args, ret, allowed, calls, consumer,
                   outer, grants, starts>>

\* Ok(Response::new(..)): handle_request returns and limiter_lock is dropped.
HRespond(t) ==
    /\ pc[t] = "h_respond"
    /\ outer' = NoThread
    /\ pc' = [pc EXCEPT ![t] = "h_idle"]
    /\ op' = [op EXCEPT ![t] = "none"]
    /\ key' = [key EXCEPT ![t] = "none"]
    /\ args' = [args EXCEPT ![t] = NoArgs]
    /\ ret' = [ret EXCEPT ![t] = None]
    /\ UNCHANGED <<requests, lock, clock, now, snap, allowed, calls, consumer, life,
                   grants, starts>>

HttpNext ==
    \/ HTick
    \/ \E t \in Threads : HRequest(t)
    \/ \E t \in Threads : HOuterLock(t)
    \/ \E t \in Threads : HCheckLock(t)
    \/ \E t \in Threads : ReadNow(t) /\ UNCHANGED aux
    \/ \E t \in Threads : Lookup(t) /\ UNCHANGED aux
    \/ \E t \in Threads : Refill(t) /\ UNCHANGED aux
    \/ \E t \in Threads : Test(t) /\ UNCHANGED aux
    \/ \E t \in Threads : Dec(t) /\ UNCHANGED aux
    \/ \E t \in Threads : HCheckReturn(t)
    \/ \E t \in Threads : HAddLock(t)
    \/ \E t \in Threads : AddInsert(t) /\ UNCHANGED aux
    \/ \E t \in Threads : HAddReturn(t)
    \/ \E t \in Threads : HRespond(t)

HttpSpec == HttpInit /\ [][HttpNext]_vars

----------------------------------------------------------------------------
\* Both uses of the Limiter under fair scheduling: a thread that can take
\* a step is not left without the processor forever (WF), and a thread that
\* waits for a mutex which is released again and again gets it (SF).
\* std::sync::Mutex itself promises no order among waiting threads; that a
\* waiting thread is served is the fairness a claim of completion presumes.

\* The threads call on clones of the Limiter: there is no outer mutex.
Direct == outer = NoOuter

\* The statements of a method between taking the lock and dropping the guard.
Body(t) ==
    \/ AddInsert(t) \/ RemoveEntity(t) \/ Peek(t)
    \/ ReadNow(t) \/ Lookup(t) \/ Refill(t) \/ Test(t) \/ Dec(t)

\* A thread's wait for a mutex ends: requests.lock() of a direct call, or
\* limiter.lock() of the handler.
LockStep(t) ==
    \/ Direct /\ Acquire(t) /\ UNCHANGED aux
    \/ HOuterLock(t)

\* Every other step of a call that has started.
RunStep(t) ==
    \/ Body(t) /\ UNCHANGED aux
    \/ Direct /\ Unlock(t) /\ UNCHANGED aux
    \/ HCheckLock(t) \/ HCheckReturn(t) \/ HAddLock(t) \/ HAddReturn(t) \/ HRespond(t)

LiveInit == Init \/ HttpInit

LiveNext ==
    \/ Direct /\ Tick /\ UNCHANGED aux
    \/ \E t \in Threads : Direct /\ Call(t) /\ UNCHANGED aux
    \/ \E t \in Threads : Direct /\ Acquire(t) /\ UNCHANGED aux
    \/ \E t \in Threads : Direct /\ Unlock(t) /\ UNCHANGED aux
    \/ \E t \in Threads : AddInsert(t) /\ UNCHANGED aux
    \/ \E t \in Threads : RemoveEntity(t) /\ UNCHANGED aux
    \/ \E t \in Threads : Peek(t) /\ UNCHANGED aux
    \/ \E t \in Threads : ReadNow(t) /\ UNCHANGED aux
    \/ \E t \in Threads : Lookup(t) /\ UNCHANGED aux
    \/ \E t \in Threads : Refill(t) /\ UNCHANGED aux
    \/ \E t \in Threads : Test(t) /\ UNCHANGED aux
    \/ \E t \in Threads : Dec(t) /\ UNCHANGED aux
    \/ HTick
    \/ \E t \in Threads : HRequest(t)
    \/ \E t \in Threads : HOuterLock(t)
    \/ \E t \in Threads : HCheckLock(t)
    \/ \E t \in Threads : HCheckReturn(t)
    \/ \E t \in Threads : HAddLock(t)
    \/ \E t \in Threads : HAddReturn(t)
    \/ \E t \in Threads : HRespond(t)

Fairness == \A t \in Threads : SF_vars(LockStep(t)) /\ WF_vars(RunStep(t))

LiveSpec == LiveInit /\ [][LiveNext]_vars /\ Fairness

----------------------------------------------------------------------------
\* The calls as single atomic steps on a map: what one thread alone computes.
\* Each yields <<the map afterwards, the value returned>>.

add_limited_entity(map, k, a, t) ==
    <<MapInsert(map, k, NewEntity(a[1], a[2], t)), None>>

remove_limited_entity(map, k) == <<MapRemove(map, k), MapGet(map, k)>>

is_entity_limited(map, k, t) ==
    IF MapGet(map, k) # None
    THEN LET entry == IF Expired(map[k], t) THEN Refilled(map[k], t) ELSE map[k]
         IN  IF HasRequests(entry)
             THEN <<[map EXCEPT ![k] = Consumed(entry)], Some(TRUE)>>
             ELSE <<[map EXCEPT ![k] = entry], Some(FALSE)>>
    ELSE <<map, None>>

get_bucket_remaining(map, k) ==
    <<map, IF MapGet(map, k) # None THEN Some(map[k].bucket) ELSE None>>

Sequential(o, map, k, a, t) ==
    CASE o = "add_limited_entity" -> add_limited_entity(map, k, a, t)
      [] o = "remove_limited_entity" -> remove_limited_entity(map, k)
      [] o = "is_entity_limited" -> is_entity_limited(map, k, t)
      [] OTHER -> get_bucket_remaining(map, k)

\* The threads inside a method body, between lock() and the return.
Holders == {t \in Threads : pc[t] \notin {"idle", "lock"}}

\* Thread t is about to return from method o: its result and effect are final.
Returning(t, o) == pc[t] = "unlock" /\ op[t] = o

----------------------------------------------------------------------------
\* C1. Capacity bound: for every registered entity, the number of
\* is_entity_limited calls that returned Some(true) since its bucket_init was
\* last assigned (by add_limited_entity or by a refill) never exceeds its
\* bucket_max, whatever the interleaving of the threads.
CapacityBound ==
    \A k \in DOMAIN requests : allowed[k] <= requests[k].bucket_max

\* A full window: the capacity >= 1 was handed out, the last of it to one
\* thread, and the other thread was then turned away and is returning while
\* the first waits for the lock again.
CapacityBoundWitness ==
    \E k \in DOMAIN requests : \E t1, t2 \in Threads :
        /\ requests[k].bucket_max >= 1
        /\ allowed[k] = requests[k].bucket_max
        /\ Returning(t1, "is_entity_limited") /\ key[t1] = k /\ ret[t1] = Some(FALSE)
        /\ consumer[k] = t2 /\ t2 # t1 /\ pc[t2] = "lock"

\* C2. Within one window of an entity with capacity K (no add/remove of it in
\* between), summed over all threads: once K or more is_entity_limited calls
\* have been decided, exactly K of them returned Some(true) and all the
\* others Some(false); before that, every call was allowed.
ExactlyKAllowed ==
    \A k \in DOMAIN requests :
        LET K == requests[k].bucket_max
        IN  /\ calls[k] >= K => allowed[k] = K
            /\ calls[k] < K => allowed[k] = calls[k]
            /\ Denied(k) => allowed[k] = K

\* Two threads called in the same window of an entity with K >= 1: one got
\* the last request, the other the denial, and both are calling again.
ExactlyKAllowedWitness ==
    \E k \in DOMAIN requests : \E t1, t2 \in Threads :
        /\ t1 # t2
        /\ requests[k].bucket_max >= 1
        /\ calls[k] > requests[k].bucket_max
        /\ consumer[k] = t1
        /\ pc[t1] = "lock"
        /\ Returning(t2, "is_entity_limited") /\ key[t2] = k
        /\ snap[k].bucket = 0 /\ snap[k].bucket_init = requests[k].bucket_init

\* C3. Atomicity: at most one thread is inside a method body; the map changes
\* only inside a body; and when a call returns, the map and the returned
\* value are those of the call run as one atomic step (with the `now` it
\* read) on the map as it was when the lock was acquired.  Every concurrent
\* execution therefore equals the sequential execution of the same calls in
\* lock order.
Linearizable ==
    /\ Cardinality(Holders) <= 1
    /\ Holders = (IF lock = NoThread THEN {} ELSE {lock})
    /\ lock = NoThread => requests = snap
    /\ \A t \in Threads :
         pc[t] = "unlock" =>
            <<requests, ret[t]>> = Sequential(op[t], snap, key[t], args[t], now[t])

\* One thread took the last request of an entity and is returning, while the
\* other thread, which consumed from another entity before, waits for the lock.
LinearizableWitness ==
    \E t1, t2 \in Threads :
        /\ t1 # t2
        /\ Returning(t1, "is_entity_limited") /\ ret[t1] = Some(TRUE)
        /\ key[t1] \in DOMAIN snap /\ snap[key[t1]].bucket = 1
        /\ pc[t2] = "lock"
        /\ \E k2 \in Keys : consumer[k2] = t2

\* C4. In every reachable state every registered entity has
\* 0 <= bucket <= bucket_max.
BucketInRange ==
    \A k \in DOMAIN requests :
        0 <= requests[k].bucket /\ requests[k].bucket <= requests[k].bucket_max

\* An emptied bucket (capacity >= 1) on which a further call was made, some
\* time after registration.
BucketInRangeWitness ==
    \E k \in DOMAIN requests :
        /\ requests[k].bucket_max >= 1 /\ requests[k].bucket = 0
        /\ Denied(k)
        /\ clock > requests[k].bucket_init

\* C5. Refill before consume: an is_entity_limited call that finds the entity
\* (capacity >= 1) and reads a `now` with now - bucket_init >= refresh_rate
\* returns Some(true) and leaves bucket = bucket_max - 1, bucket_init = now.
RefillBeforeConsume ==
    \A t \in Threads :
        (/\ Returning(t, "is_entity_limited")
         /\ key[t] \in DOMAIN snap
         /\ snap[key[t]].bucket_max >= 1
         /\ now[t] - snap[key[t]].bucket_init >= snap[key[t]].refresh_rate)
        => /\ ret[t] = Some(TRUE)
           /\ key[t] \in DOMAIN requests
           /\ requests[key[t]].bucket = snap[key[t]].bucket_max - 1
           /\ requests[key[t]].bucket_init = now[t]

\* The call came exactly at the window boundary and found the bucket empty.
RefillBeforeConsumeWitness ==
    \E t \in Threads :
        /\ Returning(t, "is_entity_limited")
        /\ key[t] \in DOMAIN snap
        /\ snap[key[t]].bucket_max >= 1 /\ snap[key[t]].bucket = 0
        /\ now[t] - snap[key[t]].bucket_init = snap[key[t]].refresh_rate
        /\ ret[t] = Some(TRUE)

\* C6. No partial credit: whatever the elapsed time e >= refresh_rate and the
\* bucket left over, the refill sets bucket to exactly bucket_max, and the
\* call ends with the same entity and the same decision: bucket_max - 1
\* requests left and Some(true), or 0 left and Some(false) for capacity 0.
NoPartialCredit ==
    \A t \in Threads :
        (/\ op[t] = "is_entity_limited"
         /\ pc[t] \in {"test", "dec", "unlock"}
         /\ key[t] \in DOMAIN snap
         /\ now[t] - snap[key[t]].bucket_init >= snap[key[t]].refresh_rate)
        => LET old == snap[key[t]]
               full == [bucket |-> old.bucket_max, bucket_init |-> now[t],
                        bucket_max |-> old.bucket_max,
                        refresh_rate |-> old.refresh_rate]
           IN  /\ key[t] \in DOMAIN requests
               /\ pc[t] \in {"test", "dec"} => requests[key[t]] = full
               /\ pc[t] = "unlock" =>
                    /\ ret[t] = Some(old.bucket_max > 0)
                    /\ requests[key[t]] =
                         [full EXCEPT !.bucket =
                            IF old.bucket_max > 0 THEN old.bucket_max - 1 ELSE 0]

\* At least two whole windows went by and the bucket still held a request.
NoPartialCreditWitness ==
    \E t \in Threads :
        /\ Returning(t, "is_entity_limited")
        /\ key[t] \in DOMAIN snap
        /\ snap[key[t]].bucket >= 1
        /\ now[t] - snap[key[t]].bucket_init >= 2 * snap[key[t]].refresh_rate

\* C7. Absence: is_entity_limited and get_bucket_remaining on a key that is
\* not registered return None and leave the map as it was.
AbsentIsNone ==
    \A t \in Threads :
        (/\ pc[t] = "unlock"
         /\ op[t] \in {"is_entity_limited", "get_bucket_remaining"}
         /\ key[t] \notin DOMAIN snap)
        => ret[t] = None /\ requests = snap

\* get_bucket_remaining is returning for a key nobody ever registered, while
\* the other key is registered and the other thread waits for the lock.
AbsentIsNoneWitness ==
    \E t1, t2 \in Threads :
        /\ Returning(t1, "get_bucket_remaining")
        /\ life[key[t1]] = "never" /\ key[t1] \notin DOMAIN snap
        /\ pc[t2] = "lock"
        /\ DOMAIN requests # {}

\* C8. Re-registration: add_limited_entity(key, C, W) on a registered key
\* leaves bucket = C, bucket_max = C, refresh_rate = W and bucket_init = the
\* instant it read, which is not in the future; nothing of the old entity is
\* left, and the key's window starts anew.
ReRegistrationResets ==
    \A t \in Threads :
        (Returning(t, "add_limited_entity") /\ key[t] \in DOMAIN snap)
        => /\ key[t] \in DOMAIN requests
           /\ requests[key[t]] =
                [bucket |-> args[t][1], bucket_init |-> now[t],
                 bucket_max |-> args[t][1], refresh_rate |-> args[t][2]]
           /\ now[t] <= clock
           /\ allowed[key[t]] = 0 /\ calls[key[t]] = 0

\* The old entity was exhausted and older than the new one.
ReRegistrationResetsWitness ==
    \E t \in Threads :
        /\ Returning(t, "add_limited_entity") /\ key[t] \in DOMAIN snap
        /\ snap[key[t]].bucket_max >= 1 /\ snap[key[t]].bucket = 0
        /\ snap[key[t]].bucket_init < now[t]
        /\ args[t][1] >= 1

\* C9. After remove_limited_entity(key) has returned the removed entity, the
\* key is absent and every is_entity_limited(key) returns None, until an
\* add_limited_entity(key, ..) runs; that add leaves the key as a fresh entity.
RemovedUntilAdded ==
    /\ \A k \in Keys :
         (life[k] = "removed" /\ ~\E t \in Holders : op[t] = "add_limited_entity" /\ key[t] = k)
         => k \notin DOMAIN requests
    /\ \A t \in Threads :
         /\ (Returning(t, "is_entity_limited") /\ life[key[t]] = "removed")
            => ret[t] = None
         /\ (Returning(t, "add_limited_entity") /\ life[key[t]] = "removed")
            => /\ MapGet(requests, key[t]) = Some(NewEntity(args[t][1], args[t][2], now[t]))
               /\ allowed[key[t]] = 0 /\ calls[key[t]] = 0

\* A check on a removed key returns, after time has passed and while the
\* other key is registered and partly used.
RemovedUntilAddedWitness ==
    \E t \in Threads :
        /\ Returning(t, "is_entity_limited") /\ life[key[t]] = "removed"
        /\ now[t] >= 1
        /\ \E k2 \in DOMAIN requests : k2 # key[t] /\ allowed[k2] >= 1

\* C10. Entity independence: while a thread runs a method on key k1, the
\* entity and the presence of every other key stay as they were when it took
\* the lock; in particular exhausting k1 leaves k2's bucket alone.
EntityIndependence ==
    \A t \in Holders : \A k2 \in Keys \ {key[t]} :
        MapGet(requests, k2) = MapGet(snap, k2)

\* user1 was exhausted by this call while user2 still has its whole bucket.
EntityIndependenceWitness ==
    \E t \in Threads : \E k2 \in DOMAIN requests :
        /\ Returning(t, "is_entity_limited") /\ key[t] # k2
        /\ ret[t] = Some(TRUE)
        /\ requests[key[t]].bucket = 0
        /\ requests[k2].bucket = requests[k2].bucket_max /\ requests[k2].bucket_max >= 1

\* C11. get_bucket_remaining is a pure read: on a registered key it returns
\* Some(bucket) as stored and leaves the map and the window's history as they
\* were; it neither consumes nor refills, so after refresh_rate has elapsed
\* it still reports the old bucket.
PeekIsPureRead ==
    \A t \in Threads :
        (Returning(t, "get_bucket_remaining") /\ key[t] \in DOMAIN snap)
        => /\ ret[t] = Some(snap[key[t]].bucket)
           /\ requests = snap
           /\ allowed[key[t]] + snap[key[t]].bucket = snap[key[t]].bucket_max

\* The peek is returning 0 for an exhausted bucket of capacity >= 1 whose
\* window elapsed before the lock was even taken.
PeekIsPureReadWitness ==
    \E t \in Threads :
        /\ Returning(t, "get_bucket_remaining") /\ key[t] \in DOMAIN snap
        /\ snap[key[t]].bucket_max >= 1 /\ snap[key[t]].bucket = 0
        /\ clock - snap[key[t]].bucket_init >= snap[key[t]].refresh_rate
        /\ ret[t] = Some(0)
        /\ Denied(key[t])

\* C12. remove_limited_entity on a registered key returns Some(the entity as
\* it was) and removes exactly that key; on an unregistered key it returns
\* None and leaves the map unchanged.  Every other key keeps its entity.
RemoveReturnsState ==
    \A t \in Threads :
        Returning(t, "remove_limited_entity")
        => /\ DOMAIN requests = DOMAIN snap \ {key[t]}
           /\ \A k \in DOMAIN requests : requests[k] = snap[k]
           /\ IF key[t] \in DOMAIN snap
              THEN ret[t] = Some(snap[key[t]])
              ELSE ret[t] = None /\ requests = snap

\* A partly used entity is being returned while the other key stays registered.
RemoveReturnsStateWitness ==
    \E t \in Threads :
        /\ Returning(t, "remove_limited_entity") /\ key[t] \in DOMAIN snap
        /\ snap[key[t]].bucket < snap[key[t]].bucket_max
        /\ ret[t] = Some(snap[key[t]])
        /\ DOMAIN requests # {}

\* C13. Capacity 0: every is_entity_limited on an entity registered with
\* max_limit = 0 returns Some(false), whatever time has elapsed and however
\* often it was refilled; the bucket stays 0.
ZeroCapacityDenied ==
    /\ \A k \in DOMAIN requests : requests[k].bucket_max = 0 => allowed[k] = 0
    /\ \A t \in Threads :
         (/\ Returning(t, "is_entity_limited")
          /\ key[t] \in DOMAIN snap
          /\ snap[key[t]].bucket_max = 0)
         => /\ ret[t] = Some(FALSE)
            /\ key[t] \in DOMAIN requests
            /\ requests[key[t]].bucket = 0 /\ requests[key[t]].bucket_max = 0

\* The denied call came two windows after the last refill and refilled again.
ZeroCapacityDeniedWitness ==
    \E t \in Threads :
        /\ Returning(t, "is_entity_limited") /\ key[t] \in DOMAIN snap
        /\ snap[key[t]].bucket_max = 0
        /\ now[t] - snap[key[t]].bucket_init >= 2 * snap[key[t]].refresh_rate
        /\ requests[key[t]].bucket_init = now[t]
        /\ ret[t] = Some(FALSE)

\* C15. Quota accounting: for every registered entity, bucket = bucket_max
\* minus the Some(true) results since bucket_init was last set, and that is
\* what get_bucket_remaining returns; a call that finds the window running
\* lowers bucket by exactly 1 when it returns Some(true) and leaves it when
\* it returns Some(false).
QuotaAccounting ==
    /\ \A k \in DOMAIN requests :
         requests[k].bucket = requests[k].bucket_max - allowed[k]
    /\ \A t \in Threads :
         /\ (Returning(t, "get_bucket_remaining") /\ key[t] \in DOMAIN requests)
            => ret[t] = Some(requests[key[t]].bucket_max - allowed[key[t]])
         /\ (/\ Returning(t, "is_entity_limited")
             /\ key[t] \in DOMAIN snap
             /\ now[t] - snap[key[t]].bucket_init < snap[key[t]].refresh_rate)
            => /\ ret[t] = Some(TRUE) =>
                    requests[key[t]].bucket = snap[key[t]].bucket - 1
               /\ ret[t] = Some(FALSE) =>
                    requests[key[t]].bucket = snap[key[t]].bucket

\* The peek reports 0 = 1 - 1 after the one request of the window was allowed
\* to the other thread.
QuotaAccountingWitness ==
    \E t \in Threads :
        /\ Returning(t, "get_bucket_remaining") /\ key[t] \in DOMAIN requests
        /\ allowed[key[t]] >= 1
        /\ consumer[key[t]] \notin {t, NoThread}
        /\ ret[t] = Some(requests[key[t]].bucket_max - allowed[key[t]])

\* C16. No early refill: an is_entity_limited call that reads a `now` with
\* now - bucket_init < refresh_rate does not raise bucket and does not change
\* bucket_init; on an exhausted bucket it returns Some(false).
NoEarlyRefill ==
    \A t \in Threads :
        (/\ op[t] = "is_entity_limited"
         /\ pc[t] \in {"refill", "test", "dec", "unlock"}
         /\ key[t] \in DOMAIN snap
         /\ now[t] - snap[key[t]].bucket_init < snap[key[t]].refresh_rate)
        => /\ pc[t] # "refill"
           /\ key[t] \in DOMAIN requests
           /\ requests[key[t]].bucket <= snap[key[t]].bucket
           /\ requests[key[t]].bucket_init = snap[key[t]].bucket_init
           /\ (pc[t] = "unlock" /\ snap[key[t]].bucket = 0) => ret[t] = Some(FALSE)

\* A denial inside the window, on a bucket the other thread exhausted after
\* the window had been refilled once.
NoEarlyRefillWitness ==
    \E t \in Threads :
        /\ Returning(t, "is_entity_limited") /\ key[t] \in DOMAIN snap
        /\ snap[key[t]].bucket_max >= 1 /\ snap[key[t]].bucket = 0
        /\ snap[key[t]].bucket_init > 0
        /\ now[t] - snap[key[t]].bucket_init < snap[key[t]].refresh_rate
        /\ consumer[key[t]] \notin {t, NoThread}
        /\ ret[t] = Some(FALSE)

\* C20. Decisions are monotone within a window: once Some(false) has been
\* returned for an entity, no step returns Some(true) for it until its
\* bucket_init is assigned again (a refill, or add/remove of the key).
DeniedStaysDenied ==
    [][\A k \in Keys : Denied(k) => allowed'[k] <= allowed[k]]_vars

\* After the denial in a window with capacity >= 1, another call was denied.
DeniedStaysDeniedWitness ==
    \E k \in DOMAIN requests : \E t \in Threads :
        /\ requests[k].bucket_max >= 1
        /\ allowed[k] = requests[k].bucket_max
        /\ calls[k] > allowed[k]
        /\ Returning(t, "is_entity_limited") /\ key[t] = k /\ ret[t] = Some(FALSE)
        /\ consumer[k] = t

\* The Some(true) results for key k of calls whose `now` lies in from..to.
RECURSIVE GrantsIn(_, _, _)
GrantsIn(k, from, to) ==
    IF from > to \/ from > MaxTime THEN 0
    ELSE grants[k][from] + GrantsIn(k, from + 1, to)

\* C18. Boundary burst: for a registered entity with bucket_max = C and
\* refresh_rate = W >= 1, the calls since its registration that read a `now`
\* in any interval s .. s + W got at most 2 * C Some(true) results (the
\* instant of a decision is the `now` its call read under the lock).
BoundaryBurst ==
    \A k \in DOMAIN requests : \A s \in 0..MaxTime :
        GrantsIn(k, s, s + requests[k].refresh_rate) <= 2 * requests[k].bucket_max

\* An interval of length W with 2 * C > C Some(true) results: the bound C
\* holds per window only.
BoundaryBurstWitness ==
    \E k \in DOMAIN requests : \E s \in 0..MaxTime :
        /\ requests[k].bucket_max >= 1
        /\ GrantsIn(k, s, s + requests[k].refresh_rate) = 2 * requests[k].bucket_max
        /\ Len(starts[k]) = 2
        /\ starts[k][2] - starts[k][1] = requests[k].refresh_rate

\* C19. Window-start monotonicity: every registered entity has
\* bucket_init <= clock; an is_entity_limited or add_limited_entity call on
\* a registered key leaves bucket_init at least what it was when the call
\* took the lock; and the values bucket_init took since the registration
\* (the registration's, then each refill's) are at least refresh_rate apart.
WindowStartMonotone ==
    /\ \A k \in DOMAIN requests :
         /\ requests[k].bucket_init <= clock
         /\ Len(starts[k]) >= 1
         /\ starts[k][Len(starts[k])] = requests[k].bucket_init
         /\ \A i \in 2..Len(starts[k]) :
              starts[k][i] - starts[k][i - 1] >= requests[k].refresh_rate
    /\ \A t \in Threads :
         (/\ pc[t] \in {"lookup", "refill", "test", "dec", "unlock"}
          /\ op[t] \in {"is_entity_limited", "add_limited_entity"}
          /\ key[t] \in DOMAIN snap)
         => /\ key[t] \in DOMAIN requests
            /\ requests[key[t]].bucket_init >= snap[key[t]].bucket_init

\* A call returns after the second refill of one registration, which moved
\* bucket_init forward from the first refill's instant.
WindowStartMonotoneWitness ==
    \E t \in Threads :
        /\ Returning(t, "is_entity_limited") /\ key[t] \in DOMAIN snap
        /\ Len(starts[key[t]]) >= 3
        /\ snap[key[t]].bucket_init = starts[key[t]][2]
        /\ requests[key[t]].bucket_init > snap[key[t]].bucket_init

\* The requests that are in add_limited_entity or about to call it.
Registering == {t \in Threads : pc[t] = "h_add" \/ (pc[t] \in {"insert", "unlock"}
                                                      /\ op[t] = "add_limited_entity")}

\* C17. In handle_request the None result and the add_limited_entity that
\* follows happen under one hold of the outer mutex: a request calls
\* add_limited_entity only while the entity has never been registered, at most
\* one request does so, and once registered the entity stays registered and
\* is never inserted again.
RegisteredOnce ==
    /\ \A t \in Registering :
         /\ outer = t
         /\ life[entity_ip] = "never"
         /\ entity_ip \notin DOMAIN snap
         /\ Registering = {t}
    /\ life[entity_ip] = "added" => entity_ip \in DOMAIN requests
    /\ life[entity_ip] \in {"never", "added"}

\* One request returns from registering the new entity while the other,
\* which arrived for the same entity, waits for the outer mutex.
RegisteredOnceWitness ==
    \E t \in Threads : \E u \in Threads \ {t} :
        /\ Returning(t, "add_limited_entity")
        /\ key[t] = entity_ip /\ entity_ip \in DOMAIN requests
        /\ requests[entity_ip].bucket = HttpMaxLimit
        /\ pc[u] = "h_lock"

\* Thread t is in no call.
Idle(t) == pc[t] \in {"idle", "h_idle"}

\* C14. Every operation completes: a thread that is in no call holds neither
\* mutex; whenever some call has started, some thread in a call can take a
\* step (no deadlock); and under fair scheduling every call that has started,
\* directly or in the handler, returns.
OperationsComplete ==
    /\ [](\A t \in Threads : Idle(t) => lock # t /\ outer # t)
    /\ []((\E t \in Threads : ~Idle(t))
            => \E t \in Threads : ~Idle(t) /\ ENABLED (LockStep(t) \/ RunStep(t)))
    /\ \A t \in Threads : (~Idle(t)) ~> Idle(t)

\* One thread is about to drop its guard while the other waits for that mutex.
OperationsCompleteWitness ==
    \E t \in Threads : \E u \in Threads \ {t} :
        /\ pc[t] = "unlock" /\ lock = t
        /\ \/ Direct /\ pc[u] = "lock"
           \/ outer = t /\ pc[u] = "h_lock"

====
